---- MODULE Spec2Model ----
(***************************************************************************)
(* Model of split_pdf_by_bookmarks.py: the outline walker                  *)
(* (extract_bookmarks_with_pages / process_outline), the range organizer   *)
(* (organize_by_level) and the emission loop of split_pdf_by_bookmarks.    *)
(*                                                                         *)
(* A title is a tuple of one-character strings, so that title.split('.')   *)
(* is computed and not assumed.  A bookmark is <<title, page, level>>, a   *)
(* section is <<title, start_page>>.                                       *)
(***************************************************************************)
EXTENDS Integers, Sequences, FiniteSets, TLC

\* ---------------------------------------------------------------- bounds
MaxEntries == 3      \* longest bookmark list handed to the organizer
NumPages == 3        \* len(reader.pages)
MaxDepthArg == 2     \* largest --depth argument
MaxNodes == 3        \* most nodes in an outline

None == "None"       \* Python's None (never a title: titles are tuples)

\* ------------------------------------------------------------ level rule
\* title.split('.'): the segments between the dots (line 62).
RECURSIVE SplitDots(_)
SplitDots(title) ==
    IF title = <<>> THEN << <<>> >>
    ELSE LET rest == SplitDots(Tail(title)) IN
         IF Head(title) = "."
         THEN << <<>> >> \o rest
         ELSE << <<Head(title)>> \o Head(rest) >> \o Tail(rest)

\* level = len(dots) if len(dots) > 1 else 1 (line 63).
TitleLevel(title) ==
    LET dots == SplitDots(title) IN
    IF Len(dots) > 1 THEN Len(dots) ELSE 1

\* ------------------------------------------------------------- organizer
\* [(title, page_num) for title, page_num, _ in bookmarks] (line 104).
PassThroughSorted(bookmarks) ==
    LET key(i) == Cardinality({j \in 1..Len(bookmarks) :
                     \/ bookmarks[j][2] < bookmarks[i][2]
                     \/ (bookmarks[j][2] = bookmarks[i][2] /\ j <= i)})
        at(k) == CHOOSE i \in 1..Len(bookmarks) : key(i) = k
    IN [k \in 1..Len(bookmarks) |-> <<bookmarks[at(k)][1], bookmarks[at(k)][2]>>]

PassThrough(bookmarks) ==
    [i \in 1..Len(bookmarks) |-> <<bookmarks[i][1], bookmarks[i][2]>>]

\* Python's sorted(): stable.  Insert x behind every element whose key is
\* not larger than its own.
RECURSIVE InsertByPage(_, _)
InsertByPage(s, x) ==
    IF s = <<>> THEN <<x>>
    ELSE IF s[Len(s)][2] <= x[2] THEN Append(s, x)
    ELSE Append(InsertByPage(SubSeq(s, 1, Len(s) - 1), x), s[Len(s)])

RECURSIVE StableSortByPage(_)
StableSortByPage(s) ==
    IF s = <<>> THEN <<>>
    ELSE InsertByPage(StableSortByPage(SubSeq(s, 1, Len(s) - 1)), s[Len(s)])

UnsortedByPage(bookmarks) == bookmarks

\* sorted(bookmarks, key=lambda x: x[1]) (line 109).
SortedByPage(bookmarks) == StableSortByPage(bookmarks)

StartsSectionStrict(level, max_depth) == level < max_depth

\* level <= max_depth (line 117).
StartsSection(level, max_depth) == level <= max_depth

\* The defaultdict(list) `sections' with its insertion order, and
\* current_parent (lines 112-113).
EmptyScan == [keys |-> <<>>, ranges |-> <<>>, parent |-> None]

HasKey(st, title) == \E k \in 1..Len(st.keys) : st.keys[k] = title
KeyIndex(st, title) == CHOOSE k \in 1..Len(st.keys) : st.keys[k] = title

\* Python truth value of current_parent (line 121): None and '' are false.
Truthy(parent) == parent # None /\ parent # <<>>

\* One iteration of the loop of lines 115-124.
ScanStep(st, b, max_depth) ==
    LET title == b[1]
        page_num == b[2]
        level == b[3]
    IN
    IF StartsSection(level, max_depth)
    THEN IF HasKey(st, title)
         THEN [keys |-> st.keys,
               ranges |-> [st.ranges EXCEPT ![KeyIndex(st, title)] =
                              Append(@, <<page_num, page_num>>)],
               parent |-> title]
         ELSE [keys |-> Append(st.keys, title),
               ranges |-> Append(st.ranges, << <<page_num, page_num>> >>),
               parent |-> title]
    ELSE IF Truthy(st.parent)
         THEN LET k == KeyIndex(st, st.parent)
                  n == Len(st.ranges[k])
              IN [st EXCEPT !.ranges[k][n] = <<st.ranges[k][n][1], page_num>>]
         ELSE st

RECURSIVE Scan(_, _)
Scan(bookmarks, max_depth) ==
    IF bookmarks = <<>> THEN EmptyScan
    ELSE ScanStep(Scan(SubSeq(bookmarks, 1, Len(bookmarks) - 1), max_depth),
                  bookmarks[Len(bookmarks)], max_depth)

\* A section list in the order sorted() gives for the key sections[x][0][0]:
\* stable on the dict's insertion order.
RECURSIVE InsertByStart(_, _)
InsertByStart(s, x) ==
    IF s = <<>> THEN <<x>>
    ELSE IF s[Len(s)][2] <= x[2] THEN Append(s, x)
    ELSE Append(InsertByStart(SubSeq(s, 1, Len(s) - 1), x), s[Len(s)])

RECURSIVE InsertByStartDesc(_, _)
InsertByStartDesc(s, x) ==
    IF s = <<>> THEN <<x>>
    ELSE IF s[Len(s)][2] >= x[2] THEN Append(s, x)
    ELSE Append(InsertByStartDesc(SubSeq(s, 1, Len(s) - 1), x), s[Len(s)])

RECURSIVE OrderByStartDesc(_)
OrderByStartDesc(pairs) ==
    IF pairs = <<>> THEN <<>>
    ELSE InsertByStartDesc(OrderByStartDesc(SubSeq(pairs, 1, Len(pairs) - 1)),
                           pairs[Len(pairs)])

\* for title in sorted(sections.keys(), key=...): result.append(...)
\* (lines 127-129), over the pairs (title, sections[title][0][0]).
RECURSIVE OrderByStart(_)
OrderByStart(pairs) ==
    IF pairs = <<>> THEN <<>>
    ELSE InsertByStart(OrderByStart(SubSeq(pairs, 1, Len(pairs) - 1)),
                       pairs[Len(pairs)])

\* organize_by_level (lines 94-132).  max_depth 0 stands for both None and
\* 0: `not max_depth' is true of either.
organize_by_level(bookmarks, max_depth) ==
    IF bookmarks = <<>> THEN <<>>
    ELSE IF max_depth = 0 THEN PassThrough(bookmarks)
    ELSE LET st == Scan(SortedByPage(bookmarks), max_depth)
             pairs == [k \in 1..Len(st.keys) |->
                          <<st.keys[k], st.ranges[k][1][1]>>]
         IN OrderByStart(pairs)

\* ---------------------------------------------------------------- driver
EndPageOffByOne(organized, i) ==
    IF i < Len(organized) THEN organized[i + 1][2] ELSE NumPages - 1

\* end_page of the i-th section, 1-based (line 167).
EndPage(organized, i) ==
    IF i < Len(organized) THEN organized[i + 1][2] ELSE NumPages

\* The pages the loop of lines 173-175 hands to writer.add_page, in order.
PagesToAdd(start_page, end_page) ==
    SelectSeq([j \in 1..(IF end_page > start_page THEN end_page - start_page ELSE 0)
                  |-> start_page + j - 1],
              LAMBDA p : p < NumPages)

\* ----------------------------------------------------------------- state
VARIABLES
    bookmarks,   \* what extract_bookmarks_with_pages returned (line 152)
    max_depth,   \* the --depth argument; 0 stands for None and for 0
    organized,   \* organized_bookmarks (line 161)
    idx,         \* 1-based position of the loop of line 165
    added,       \* added[k]: the pages given to the k-th section's writer
    created,     \* the sections whose output file was opened and written
    failed,      \* the sections whose open()/write() raised (line 187)
    pc,          \* position of split_pdf_by_bookmarks / main
    parent,      \* outline: parent[k] is the parent of node k, 0 at top level
    rep,         \* outline: rep[p + 1] is how the children of p are stored
    stack,       \* pending process_outline calls, innermost first
    results,     \* the bookmarks collected so far (line 24)
    visited,     \* the nodes process_outline has handled, in order
    outcome,     \* outcome[k]: how resolving node k's target went
    wpc          \* position of extract_bookmarks_with_pages

vars == <<bookmarks, max_depth, organized, idx, added, created, failed, pc,
          parent, rep, stack, results, visited, outcome, wpc>>

splitVars == <<bookmarks, max_depth, organized, idx, added, created, failed, pc>>
walkVars == <<parent, rep, stack, results, visited, outcome, wpc>>

\* ------------------------------------------------- split_pdf_by_bookmarks
SplitTitles == { <<"A">>, <<"B">>, <<"A", ".", "1">> }

Bookmark == { <<t, p, TitleLevel(t)>> : t \in SplitTitles, p \in 0..(NumPages - 1) }

BookmarkLists == UNION { [1..n -> Bookmark] : n \in 0..MaxEntries }

WalkIdle ==
    /\ parent = <<>> /\ rep = <<>> /\ stack = <<>> /\ results = <<>>
    /\ visited = <<>> /\ outcome = <<>> /\ wpc = "idle"

InitSplit ==
    /\ bookmarks \in BookmarkLists
    /\ max_depth \in 0..MaxDepthArg
    /\ organized = <<>>
    /\ idx = 1
    /\ added = <<>>
    /\ created = {}
    /\ failed = {}
    /\ pc = "start"
    /\ WalkIdle

\* if not bookmarks: print(...); return (lines 154-156).
NoBookmarks ==
    /\ pc = "start"
    /\ bookmarks = <<>>
    /\ pc' = "done"
    /\ UNCHANGED <<bookmarks, max_depth, organized, idx, added, created, failed>>
    /\ UNCHANGED walkVars

\* organized_bookmarks = organize_by_level(bookmarks, max_depth) (line 161).
Organize ==
    /\ pc = "start"
    /\ bookmarks # <<>>
    /\ organized' = organize_by_level(bookmarks, max_depth)
    /\ pc' = "loop"
    /\ UNCHANGED <<bookmarks, max_depth, idx, added, created, failed>>
    /\ UNCHANGED walkVars

SectionPages(i) == PagesToAdd(organized[i][2], EndPage(organized, i))

\* One iteration of the loop (lines 165-188) in which nothing raises: the
\* pages are added, the file is opened and the writer serialized into it.
EmitSection ==
    /\ pc = "loop"
    /\ idx <= Len(organized)
    /\ added' = Append(added, SectionPages(idx))
    /\ created' = created \cup {idx}
    /\ idx' = idx + 1
    /\ UNCHANGED <<bookmarks, max_depth, organized, failed, pc>>
    /\ UNCHANGED walkVars

\* One iteration in which open() or writer.write() raises: caught at line
\* 187, reported, and the loop goes on.
EmitWriteFails ==
    /\ pc = "loop"
    /\ idx <= Len(organized)
    /\ added' = Append(added, SectionPages(idx))
    /\ failed' = failed \cup {idx}
    /\ idx' = idx + 1
    /\ UNCHANGED <<bookmarks, max_depth, organized, created, pc>>
    /\ UNCHANGED walkVars

\* One iteration in which writer.add_page raises on the j-th page of the
\* section (lines 173-175 stand outside the try of line 184): the exception
\* leaves split_pdf_by_bookmarks and is caught by main (lines 212-215).
EmitAddPageFails ==
    /\ pc = "loop"
    /\ idx <= Len(organized)
    /\ \E j \in 1..Len(SectionPages(idx)) :
          added' = Append(added, SubSeq(SectionPages(idx), 1, j - 1))
    /\ pc' = "error"
    /\ UNCHANGED <<bookmarks, max_depth, organized, idx, created, failed>>
    /\ UNCHANGED walkVars

\* The loop is exhausted; main prints "PDF splitting complete!" (line 211).
LoopEnd ==
    /\ pc = "loop"
    /\ idx > Len(organized)
    /\ pc' = "done"
    /\ UNCHANGED <<bookmarks, max_depth, organized, idx, added, created, failed>>
    /\ UNCHANGED walkVars

NextSplit ==
    \/ NoBookmarks
    \/ Organize
    \/ EmitSection
    \/ EmitWriteFails
    \/ EmitAddPageFails
    \/ LoopEnd

SpecSplit == InitSplit /\ [][NextSplit]_vars

\* ------------------------------------------------------------- outline
\* The outline is a tree of MaxNodes nodes at most: parent[k] < k, and the
\* children of a node are declared in ascending order.  rep[p + 1] says how
\* the children of p (p = 0: the top level) are stored:
\*   "link"   the first child under '/First' (for p = 0: reader.outline
\*            itself), each child pointing to the next with '/Next';
\*   "list"   a Python list of the children under '/First' (for p = 0:
\*            reader.outline is that list);
\*   "nested" a Python list of the children placed right behind p in the
\*            list p itself is an item of (how PyPDF2 nests an outline).
\* Every node is stored in exactly one place.
Reps == {"link", "list", "nested"}

ChildSet(par, p) == {k \in 1..Len(par) : par[k] = p}

InList(par, rp, k) == rp[par[k] + 1] \in {"list", "nested"}

WellFormed(par, rp) ==
    /\ rp[1] \in {"link", "list"}
    /\ \A k \in 1..Len(par) :
          /\ ChildSet(par, k) = {} => rp[k + 1] = "link"
          /\ rp[k + 1] = "nested" => InList(par, rp, k)

Outlines ==
    UNION { { o \in [par : [1..n -> 0..(MaxNodes - 1)], rp : [1..(n + 1) -> Reps]] :
                 /\ \A k \in 1..n : o.par[k] < k
                 /\ WellFormed(o.par, o.rp) } : n \in 0..MaxNodes }

DictRef(k) == [kind |-> "dict", id |-> k]
ListRef(p) == [kind |-> "list", id |-> p]

RECURSIVE SeqOfSet(_)
SeqOfSet(S) ==
    IF S = {} THEN <<>>
    ELSE LET m == CHOOSE x \in S : \A y \in S : x <= y
         IN <<m>> \o SeqOfSet(S \ {m})

Children(p) == SeqOfSet(ChildSet(parent, p))

LaterSiblings(k) == {j \in ChildSet(parent, parent[k]) : j > k}

\* reader.outline (line 79): None, a dict or a list.
Root ==
    IF rep[1] = "list" THEN <<ListRef(0)>>
    ELSE IF Len(parent) = 0 THEN <<>>
    ELSE <<DictRef(1)>>

\* The items of the list that stores the children of p, in order.
RECURSIVE ItemsOf(_)
ItemsOf(cs) ==
    IF cs = <<>> THEN <<>>
    ELSE LET c == Head(cs) IN
         <<DictRef(c)>>
         \o (IF rep[c + 1] = "nested" THEN <<ListRef(c)>> ELSE <<>>)
         \o ItemsOf(Tail(cs))

Items(p) == ItemsOf(Children(p))

\* outline['/First'] when the key is present, as a list of 0 or 1 refs.
First(k) ==
    IF ChildSet(parent, k) = {} THEN <<>>
    ELSE IF rep[k + 1] = "link" THEN <<DictRef(Head(Children(k)))>>
    ELSE IF rep[k + 1] = "list" THEN <<ListRef(k)>>
    ELSE <<>>

\* outline['/Next'] when the key is present, as a list of 0 or 1 refs.
Next(k) ==
    IF rep[parent[k] + 1] = "link" /\ LaterSiblings(k) # {}
    THEN <<DictRef(Head(SeqOfSet(LaterSiblings(k))))>>
    ELSE <<>>

\* ------------------------------------------------------- process_outline
WalkTitles == { <<"1", ".", " ", "O">>, <<"A">> }

\* How the target of a node is stored and how the reader answers for it.
\*   key        which of '/Page', '/D' the node carries ("none": neither)
\*   dest_ok    for '/D': the destination is a non-empty list
\*   first      reader.get_page_number(page_ref): a page, None, or raises
\*   get_object page_ref has get_object
\*   second     reader.get_page_number(page_ref.get_object())
Targets ==
    { [key |-> "none", dest_ok |-> FALSE, first |-> "None",
       get_object |-> FALSE, second |-> "raises"] }
    \cup { [key |-> "/D", dest_ok |-> FALSE, first |-> "page",
            get_object |-> FALSE, second |-> "raises"] }
    \cup { t \in [key : {"/Page", "/D"}, dest_ok : {TRUE},
                  first : {"page", "None", "raises"},
                  get_object : BOOLEAN, second : {"page", "raises"}] :
             \/ t.first = "raises"
             \/ (~t.get_object /\ t.second = "raises") }

\* The page the reader gives for node k's target when it gives one.
PageOfNode(k) == k - 1

PageNum(n) == [tag |-> "page", num |-> n]
NoPage == [tag |-> "None", num |-> -1]
Raised == [tag |-> "raises", num |-> -1]

\* try: get_page_number(page_ref) / except: the same on
\* page_ref.get_object() if there is one (lines 42-47 and 54-58).  An
\* exception of the second call leaves the inner handler.
LookUp(k, tgt) ==
    IF tgt.first = "page" THEN PageNum(PageOfNode(k))
    ELSE IF tgt.first = "None" THEN NoPage
    ELSE IF ~tgt.get_object THEN NoPage
    ELSE IF tgt.second = "page" THEN PageNum(PageOfNode(k))
    ELSE Raised

\* page_num after lines 36-58.
ResolvePage(k, tgt) ==
    IF tgt.key = "none" THEN NoPage
    ELSE IF tgt.key = "/Page" THEN LookUp(k, tgt)
    ELSE IF tgt.dest_ok THEN LookUp(k, tgt)
    ELSE NoPage

ProcessEntryClearing(res, k, title, tgt) ==
    LET page_num == ResolvePage(k, tgt) IN
    IF page_num.tag = "raises" THEN <<>>
    ELSE IF page_num.tag = "None" THEN res
    ELSE Append(res, <<title, page_num.num, TitleLevel(title)>>)

\* The try block of lines 35-67 on the results so far: an exception is
\* caught at line 66 and only reported; a page number appends the entry
\* with its level taken from the title.
ProcessEntry(res, k, title, tgt) ==
    LET page_num == ResolvePage(k, tgt) IN
    IF page_num.tag = "raises" THEN res
    ELSE IF page_num.tag = "None" THEN res
    ELSE Append(res, <<title, page_num.num, TitleLevel(title)>>)

ContinuationNextFirst(k) == Next(k) \o First(k)

\* The calls a dict makes after its own entry: '/First', then '/Next'
\* (lines 70-73).
Continuation(k) == First(k) \o Next(k)

\* What the model remembers of a target, by the outline and the reader
\* alone: no target, a target that resolves to a page (at the first or the
\* second attempt), or one that does not.
TargetClass(tgt) ==
    IF tgt.key = "none" THEN "missing"
    ELSE IF tgt.key = "/D" /\ ~tgt.dest_ok THEN "failed"
    ELSE IF tgt.first = "page" THEN "resolved"
    ELSE IF tgt.first = "raises" /\ tgt.get_object /\ tgt.second = "page"
         THEN "resolved"
    ELSE "failed"

SplitIdle ==
    /\ bookmarks = <<>> /\ max_depth = 0 /\ organized = <<>> /\ idx = 1
    /\ added = <<>> /\ created = {} /\ failed = {} /\ pc = "idle"

InitWalk ==
    /\ \E o \in Outlines : parent = o.par /\ rep = o.rp
    /\ stack = <<>>
    /\ results = <<>>
    /\ visited = <<>>
    /\ outcome = [k \in 1..Len(parent) |-> "unvisited"]
    /\ wpc = "start"
    /\ SplitIdle

\* if outline is None: return [] (lines 83-85).
NoOutline ==
    /\ wpc = "start"
    /\ Root = <<>>
    /\ wpc' = "done"
    /\ UNCHANGED <<parent, rep, stack, results, visited, outcome>>
    /\ UNCHANGED splitVars

\* results = process_outline(outline) is called (line 87).
StartWalk ==
    /\ wpc = "start"
    /\ Root # <<>>
    /\ stack' = Root
    /\ wpc' = "walking"
    /\ UNCHANGED <<parent, rep, results, visited, outcome>>
    /\ UNCHANGED splitVars

\* process_outline on a list: a call per item, in order (lines 28-30).
ProcessList ==
    /\ wpc = "walking"
    /\ stack # <<>>
    /\ Head(stack).kind = "list"
    /\ stack' = Items(Head(stack).id) \o Tail(stack)
    /\ UNCHANGED <<parent, rep, results, visited, outcome, wpc>>
    /\ UNCHANGED splitVars

\* process_outline on a dict (lines 31-73): the node's own entry, then its
\* '/First' and its '/Next'.
ProcessDict ==
    /\ wpc = "walking"
    /\ stack # <<>>
    /\ Head(stack).kind = "dict"
    /\ LET k == Head(stack).id IN
       \E title \in WalkTitles, tgt \in Targets :
          /\ results' = ProcessEntry(results, k, title, tgt)
          /\ outcome' = [outcome EXCEPT ![k] = TargetClass(tgt)]
          /\ visited' = Append(visited, k)
          /\ stack' = Continuation(k) \o Tail(stack)
    /\ UNCHANGED <<parent, rep, wpc>>
    /\ UNCHANGED splitVars

\* The outermost call returns; extract_bookmarks_with_pages returns results
\* (lines 87-89).
WalkReturns ==
    /\ wpc = "walking"
    /\ stack = <<>>
    /\ wpc' = "done"
    /\ UNCHANGED <<parent, rep, stack, results, visited, outcome>>
    /\ UNCHANGED splitVars

NextWalk ==
    \/ NoOutline
    \/ StartWalk
    \/ ProcessList
    \/ ProcessDict
    \/ WalkReturns

SpecWalk == InitWalk /\ [][NextWalk]_vars

\* ------------------------------------------------- properties of the split
\* organize_by_level has just returned: organized_bookmarks is set and the
\* loop has not begun.  No later step changes bookmarks, max_depth or
\* organized, so what holds of them here holds for the rest of the run.
Organized == pc = "loop" /\ idx = 1 /\ added = <<>>

\* The loop runs, or the run has ended after it.
Emitting == bookmarks # <<>> /\ pc \in {"loop", "done", "error"}

Starts == [i \in 1..Len(organized) |-> organized[i][2]]
Ends == [i \in 1..Len(organized) |-> EndPage(organized, i)]

PageOrdered(bms) == \A i \in 1..(Len(bms) - 1) : bms[i][2] <= bms[i + 1][2]

\* C1 (pass-through law): with max_depth unset, organize_by_level returns as
\* many sections as there are entries and the i-th section is (title_i,
\* page_i) of the i-th entry: nothing merged, dropped or reordered.
C1_PassThrough ==
    (Organized /\ max_depth = 0) =>
        /\ Len(organized) = Len(bookmarks)
        /\ \A i \in 1..Len(bookmarks) :
              /\ organized[i][1] = bookmarks[i][1]
              /\ organized[i][2] = bookmarks[i][2]

\* C1 witness: three entries out of page order, two of them equal, passed
\* through.
C1_Witness ==
    /\ Organized /\ max_depth = 0
    /\ Len(bookmarks) = 3
    /\ bookmarks[1] = bookmarks[3]
    /\ bookmarks[2][2] < bookmarks[1][2]
    /\ Len(organized) = 3

\* C2 (empty sections are never written): no output file is created for a
\* section whose resolved range has start_page = end_page.
C2_EmptyNeverWritten ==
    \A k \in created : Starts[k] # Ends[k]

SectionsAscending ==
    /\ \A i \in 1..(Len(organized) - 1) : Starts[i] <= Starts[i + 1]
    /\ \A i \in 1..Len(organized) : Starts[i] <= Ends[i]

\* C3 as stated (section ordering for every run, max_depth set or unset, any
\* declared order): start_i <= start_(i+1) and start_i <= end_i.
C3_OrderingAnyRun == Organized => SectionsAscending

\* C3 amended: the ordering holds when max_depth is set (non-zero), and,
\* with max_depth unset, when the entries are declared in ascending page
\* order.
C3_OrderingWhenSorted ==
    (Organized /\ (max_depth # 0 \/ PageOrdered(bookmarks))) => SectionsAscending

\* C3 witness: max_depth set, entries declared out of page order, at least
\* two sections with distinct starts result.
C3_Witness ==
    /\ Organized /\ max_depth > 0
    /\ ~PageOrdered(bookmarks)
    /\ Len(organized) >= 2
    /\ Starts[1] < Starts[2]

MaxLevelPresent(bms) ==
    CHOOSE l \in {bms[i][3] : i \in 1..Len(bms)} :
        \A i \in 1..Len(bms) : bms[i][3] <= l

TitlesOf(bms) == {bms[i][1] : i \in 1..Len(bms)}

\* C5 as stated (boundary of max_depth): with max_depth equal to the maximum
\* level present, as many sections result as with max_depth unset, also when
\* entries share a title.
C5_BoundaryCount ==
    (Organized /\ max_depth = MaxLevelPresent(bookmarks)) =>
        Len(organized) = Len(organize_by_level(bookmarks, 0))

\* C5 amended: with max_depth equal to the maximum level present, one
\* section results per distinct title; the count is that of the unset call
\* exactly when the titles are pairwise distinct.
C5_BoundaryDistinctTitles ==
    (Organized /\ max_depth = MaxLevelPresent(bookmarks)) =>
        /\ Len(organized) = Cardinality(TitlesOf(bookmarks))
        /\ (Cardinality(TitlesOf(bookmarks)) = Len(bookmarks)
              <=> Len(organized) = Len(organize_by_level(bookmarks, 0)))

\* C5 witness: three entries with distinct titles, the deepest at level 2,
\* organized with max_depth 2 into three sections.
C5_Witness ==
    /\ Organized /\ max_depth = 2
    /\ MaxLevelPresent(bookmarks) = 2
    /\ Len(bookmarks) = 3
    /\ Cardinality(TitlesOf(bookmarks)) = 3
    /\ Len(organized) = 3

\* C6 (per-section failure isolation): whatever failed while a section was
\* emitted, the run ends only after every section was attempted: a failure
\* in section i never keeps a later section from its turn.
C6_FailureIsolation ==
    (bookmarks # <<>> /\ pc \in {"done", "error"}) =>
        Len(added) = Len(organized)

Shallow == {i \in 1..Len(bookmarks) : bookmarks[i][3] <= max_depth}

FirstPageOf(title) ==
    CHOOSE p \in {bookmarks[i][2] : i \in {j \in Shallow : bookmarks[j][1] = title}} :
        \A i \in Shallow : bookmarks[i][1] = title => p <= bookmarks[i][2]

\* C8 (grouping with max_depth set): the result holds exactly one pair per
\* distinct title among the entries with level <= max_depth, its start the
\* least page of that title among them, the pairs by start ascending; an
\* entry deeper than max_depth yields no section, and if all are deeper the
\* result is empty.
C8_Grouping ==
    (Organized /\ max_depth > 0) =>
        /\ \A i, j \in 1..Len(organized) :
              organized[i][1] = organized[j][1] => i = j
        /\ {organized[i][1] : i \in 1..Len(organized)}
              = {bookmarks[i][1] : i \in Shallow}
        /\ \A k \in 1..Len(organized) :
              organized[k][2] = FirstPageOf(organized[k][1])
        /\ \A k \in 1..(Len(organized) - 1) : Starts[k] <= Starts[k + 1]
        /\ (Shallow = {} => organized = <<>>)

\* C8 witness: a deep entry on page 0 with no parent before it, then the
\* same shallow title twice, declared in descending page order; one section
\* results, at the lower page.
C8_Witness ==
    /\ Organized /\ max_depth = 1
    /\ bookmarks = << <<(<<"A">>), 2, 1>>, <<(<<"A">>), 1, 1>>,
                     <<(<<"A", ".", "1">>), 0, 2>> >>
    /\ organized = << <<(<<"A">>), 1>> >>

AddedTo(k) == {added[k][j] : j \in 1..Len(added[k])}

\* C10 (page partition): with max_depth positive and at least one section,
\* the pages added to the writers are within [s0, page count), each at most
\* once over all writers and in ascending order within a writer, and when
\* the loop has run to its end each page of [s0, page count) was added to
\* exactly one writer.
C10_PagePartition ==
    (Emitting /\ max_depth > 0 /\ Len(organized) > 0) =>
        /\ \A k \in 1..Len(added) :
              /\ \A j \in 1..(Len(added[k]) - 1) : added[k][j] < added[k][j + 1]
              /\ \A j \in 1..Len(added[k]) :
                    Starts[1] <= added[k][j] /\ added[k][j] < NumPages
        /\ \A k, m \in 1..Len(added) : k # m => AddedTo(k) \cap AddedTo(m) = {}
        /\ (pc = "done" =>
              \A p \in Starts[1]..(NumPages - 1) :
                  Cardinality({k \in 1..Len(added) : p \in AddedTo(k)}) = 1)

\* C10 witness: a completed run with max_depth set, two sections, the first
\* starting after page 0 and holding one page, the second holding the rest.
C10_Witness ==
    /\ Emitting /\ max_depth > 0 /\ pc = "done"
    /\ Len(organized) = 2
    /\ Starts[1] = 1
    /\ added = << <<1>>, <<2>> >>

\* -------------------------------------------------- properties of the walk
Digits == {"0", "1", "2", "3", "4", "5", "6", "7", "8", "9"}

\* A single numeral, then ". ", and no other dot.
NumberedLeading(title) ==
    /\ Len(title) >= 3
    /\ title[1] \in Digits /\ title[2] = "." /\ title[3] = " "
    /\ \A i \in 3..Len(title) : title[i] # "."

\* C4 (level-inference priority): an entry whose title is a single numeral
\* followed by ". " and holds no other dot, such as "1. Overview", is given
\* level 1.
C4_NumberedLeadingIsLevelOne ==
    \A i \in 1..Len(results) :
        NumberedLeading(results[i][1]) => results[i][3] = 1

\* The node each returned entry stands for.
Emitted == [i \in 1..Len(results) |-> results[i][2] + 1]

Resolved(k) == outcome[k] = "resolved"

RECURSIVE OnlyResolved(_)
OnlyResolved(nodes) ==
    IF nodes = <<>> THEN <<>>
    ELSE (IF Resolved(Head(nodes)) THEN <<Head(nodes)>> ELSE <<>>)
         \o OnlyResolved(Tail(nodes))

\* C7 (resolution failure is non-fatal): at every point of the walk the
\* entries collected are those of the resolvable nodes handled so far, in
\* the order handled, whatever nodes in between had no target or failed to
\* resolve; when the walk returns every node of the outline was handled
\* once, the children and following siblings of the failing ones included.
C7_FailureIsNonFatal ==
    /\ Emitted = OnlyResolved(visited)
    /\ (wpc = "done" =>
          /\ Len(visited) = Len(parent)
          /\ {visited[i] : i \in 1..Len(visited)} = 1..Len(parent))

\* C7 witness: a returned walk in which node 1 failed to resolve and node 2
\* has no target, while node 1's child and a later node are returned.
C7_Witness ==
    /\ wpc = "done"
    /\ Len(parent) = 3 /\ parent[3] = 1
    /\ outcome[1] = "failed" /\ outcome[2] = "missing" /\ outcome[3] = "resolved"
    /\ Len(results) = 1

RECURSIVE Ancestors(_)
Ancestors(k) ==
    IF parent[k] = 0 THEN {} ELSE {parent[k]} \cup Ancestors(parent[k])

Subtree(a) == {a} \cup {k \in 1..Len(parent) : a \in Ancestors(k)}

\* C9 (traversal order): the returned entries are those of the resolvable
\* nodes, each once, in depth-first pre-order: a node before its
\* descendants, and the whole subtree of a node before the subtree of any
\* sibling declared after it.
C9_PreOrder ==
    wpc = "done" =>
        /\ \A i, j \in 1..Len(results) : Emitted[i] = Emitted[j] => i = j
        /\ {Emitted[i] : i \in 1..Len(results)}
              = {k \in 1..Len(parent) : Resolved(k)}
        /\ \A i, j \in 1..Len(results) :
              Emitted[i] \in Ancestors(Emitted[j]) => i < j
        /\ \A a, b \in 1..Len(parent) :
              (parent[a] = parent[b] /\ a < b) =>
                 \A i, j \in 1..Len(results) :
                    (Emitted[i] \in Subtree(a) /\ Emitted[j] \in Subtree(b)) => i < j

\* C9 witness: top level nodes 1 and 2 in a list, node 3 the child of node
\* 1 under '/First', all resolvable: returned in the order 1, 3, 2.
C9_Witness ==
    /\ wpc = "done"
    /\ parent = <<0, 0, 1>>
    /\ rep[1] = "list" /\ rep[2] = "link"
    /\ Emitted = <<1, 3, 2>>

====
